---- MODULE Spec2Model ----
(***************************************************************************)
(* Reversible filename encoding of rasa/syncthing: the FAT codec           *)
(* (lib/encoding/fat), the encoder filesystem decorator (lib/fs) and the   *)
(* volume type prober (lib/fsutil).                                        *)
(*                                                                         *)
(* A string is a sequence of units.  A unit is a Unicode code point, or    *)
(* BadByte for one byte that is not part of a well formed UTF-8 sequence.  *)
(***************************************************************************)
EXTENDS Integers, Sequences, FiniteSets, TLC

\* the codec: the input, the current string, the calls applied so far
VARIABLES orig, cs, trace
\* the prober: the package mutex and cache, the directories, the callers
VARIABLES mux, volMap, dirKind, volRejects, isWindows, entries,
          gpc, cur, out, hist

\* the decorator: its configuration, the pattern flag, the volume's directory,
\* the position of each caller, the record of the call made last and the
\* number of calls started
VARIABLES encoderType, volume, pattern, disk, tpc, last, nfs
\* the encoder type's text form: the value, the text and the calls made
VARIABLES encType, text, typeTrace
\* the rewrapping of results: the concrete types the wrapped filesystem
\* returns, whether it is a Rooter, and the outcome of each call made
VARIABLES fileImpl, infoImpl, isRooter, wrapTrace
\* the tool that finds names stored both encoded and decoded: the directory
\* it scans, the mode, the listing left to visit, the decoded names seen,
\* the counters, the pair handled last and the position in findDuplicates
VARIABLES scanned, fixMode, fixFiles, decodes, stats, pair, fpc

codecVars == <<orig, cs, trace>>
fsVars == <<encoderType, volume, pattern, disk, tpc, last, nfs>>
volVars == <<mux, volMap, dirKind, volRejects, isWindows, entries,
             gpc, cur, out, hist>>
typeVars == <<encType, text, typeTrace>>
wrapVars == <<fileImpl, infoImpl, isRooter, wrapTrace>>
toolVars == <<scanned, fixMode, fixFiles, decodes, stats, pair, fpc>>
auxVars == <<typeVars, wrapVars, toolVars>>
vars == <<codecVars, volVars, fsVars, auxVars>>

(***************************************************************************)
(* Bounds of the model.                                                    *)
(***************************************************************************)
\* longest input string drawn from SmallRunes
MaxLen == 3
\* longest chain of codec calls applied to one input
MaxOps == 2
\* number of prober calls made in one run
MaxCalls == 3
\* number of decorator calls made in one run
MaxFsCalls == 2
\* longest chain of MarshalText and UnmarshalText calls on one value
MaxTypeOps == 3
\* number of rewrapping calls made on one decorator
MaxWrapOps == 2

(***************************************************************************)
(* lib/encoding/fat/consts                                                 *)
(***************************************************************************)
BaseRune == 61440
NumChars == 256
\* "\x00/\\"
Nevers == {0, 47, 92}
\* "*?"
PatternNevers == {42, 63}
\* "\x01".."\x1f" and `"*:<>?|`
Encodes == (1..31) \cup {34, 42, 58, 60, 62, 63, 124}

\* unicode.ReplacementChar, what a range loop and runes.Map read for a bad byte
ReplacementChar == 65533
\* a byte outside any well formed UTF-8 sequence
BadByte == -1
\* unicode.MaxRune
MaxRune == 1114111

(***************************************************************************)
(* Go's integer operators on non-negative operands.                        *)
(***************************************************************************)
RECURSIVE BitOr(_, _)
\* a | b
BitOr(a, b) ==
    IF a = 0 THEN b
    ELSE IF b = 0 THEN a
    ELSE 2 * BitOr(a \div 2, b \div 2) + (IF a % 2 = 1 \/ b % 2 = 1 THEN 1 ELSE 0)

RECURSIVE BitAnd(_, _)
\* a & b
BitAnd(a, b) ==
    IF a = 0 \/ b = 0 THEN 0
    ELSE 2 * BitAnd(a \div 2, b \div 2) + (IF a % 2 = 1 /\ b % 2 = 1 THEN 1 ELSE 0)

RECURSIVE BitAndNot(_, _)
\* a &^ b
BitAndNot(a, b) ==
    IF a = 0 THEN 0
    ELSE IF b = 0 THEN a
    ELSE 2 * BitAndNot(a \div 2, b \div 2) + (IF a % 2 = 1 /\ b % 2 = 0 THEN 1 ELSE 0)

(***************************************************************************)
(* The generated tables (default_table.go): entry r is r | BaseRune when   *)
(* the encoder escapes r, and r itself otherwise.                          *)
(***************************************************************************)
puaEncodes ==
    [r \in 0..(NumChars - 1) |->
        IF r \in Encodes /\ r \notin Nevers THEN BitOr(r, BaseRune) ELSE r]

puaPatternEncodes ==
    [r \in 0..(NumChars - 1) |->
        IF r \in Encodes /\ r \notin Nevers /\ r \notin PatternNevers
        THEN BitOr(r, BaseRune) ELSE r]

(***************************************************************************)
(* lib/encoding/fat: the three rune mappings.                              *)
(***************************************************************************)
puaDecodeTransformer_Identity(r) == r

puaDecodeTransformer_NoTable(r) ==
    IF r < BaseRune \/ r >= (BaseRune + NumChars) THEN r
    ELSE BitAndNot(r, BaseRune)

puaDecodeTransformer(r) ==
    IF r < BaseRune \/ r >= (BaseRune + NumChars) THEN r
    ELSE IF puaEncodes[BitAndNot(r, BaseRune)] >= BaseRune THEN BitAndNot(r, BaseRune)
    ELSE r

puaEncodingTransformer_Pattern(r) ==
    IF r >= 0 /\ r < NumChars THEN puaPatternEncodes[r] ELSE r

puaEncodingTransformer_All(r) ==
    IF r >= 0 /\ r < NumChars THEN BitOr(r, BaseRune) ELSE r

puaEncodingTransformer(r) ==
    IF r >= 0 /\ r < NumChars THEN puaEncodes[r] ELSE r

puaPatternEncodingTransformer_Full(r) ==
    IF r >= 0 /\ r < NumChars THEN puaEncodes[r] ELSE r

puaPatternEncodingTransformer(r) ==
    IF r >= 0 /\ r < NumChars THEN puaPatternEncodes[r] ELSE r

\* the rune a unit is read as: a bad byte reads as utf8.RuneError
Rune(u) == IF u = BadByte THEN ReplacementChar ELSE u

\* runes.Map(f) applied to a whole string maps every rune on its own
Decode(name) == [i \in 1..Len(name) |-> puaDecodeTransformer(Rune(name[i]))]

\* a transformer that stops mapping when its first buffer of two runes is full
Encode_ShortBuffer(name) ==
    [i \in 1..Len(name) |->
        IF i <= 2 THEN puaEncodingTransformer(Rune(name[i])) ELSE Rune(name[i])]

Encode(name) == [i \in 1..Len(name) |-> puaEncodingTransformer(Rune(name[i]))]

EncodePattern(pat) ==
    [i \in 1..Len(pat) |-> puaPatternEncodingTransformer(Rune(pat[i]))]

IsDecoded_Pattern(name) ==
    \E i \in 1..Len(name) :
        /\ ~(Rune(name[i]) < 0 \/ Rune(name[i]) >= NumChars)
        /\ puaPatternEncodes[Rune(name[i])] >= BaseRune

IsDecoded(name) ==
    \E i \in 1..Len(name) :
        /\ ~(Rune(name[i]) < 0 \/ Rune(name[i]) >= NumChars)
        /\ puaEncodes[Rune(name[i])] >= BaseRune

IsEncoded_NoTable(name) ==
    \E i \in 1..Len(name) :
        ~(Rune(name[i]) < BaseRune \/ Rune(name[i]) >= (BaseRune + NumChars))

IsEncoded(name) ==
    \E i \in 1..Len(name) :
        /\ ~(Rune(name[i]) < BaseRune \/ Rune(name[i]) >= (BaseRune + NumChars))
        /\ puaEncodes[BitAnd(Rune(name[i]), 255)] >= BaseRune

(***************************************************************************)
(* lib/fsutil: the volume type prober.                                     *)
(***************************************************************************)
\* the const block opens with UnixTempPrefix, so iota is 1 at VolumeTypeUnknown
VolumeTypeUnknown == 1
VolumeTypeFat == 2
VolumeTypeExt == 3

VolumeTypes == {VolumeTypeFat, VolumeTypeExt}

Threads == {1, 2}
NoThread == 0
NoEntry == [dyn |-> "none", val |-> 0]

\* the directories of the model and the paths callers name them by
Dirs == {"d1", "d2"}
Paths == {"d1", "d1/", "d2"}

\* filepath.Clean
Clean(path) == IF path = "d1/" THEN "d1" ELSE path

\* what os.Stat and os.MkdirTemp find at a directory
DirKinds == {"missing", "file", "readonly", "nosubdir", "dir"}

\* the printable characters of consts.Encodes: unicode.IsControl skips 1..31
PrintableEncodes == {r \in Encodes : ~(r <= 31 \/ (r >= 127 /\ r <= 159))}

\* the sets of probe characters a volume refuses in names
RejectSets == {{}, PrintableEncodes, PrintableEncodes \ {58}}

reservedFATChars ==
    {r \in Encodes :
        /\ ~(r <= 31 \/ (r >= 127 /\ r <= 159))
        /\ ~(isWindows /\ r = 58)}

\* i, _ := a.(int): the value when a holds an int, else the zero value
AssertInt(a) == IF a.dyn = "int" THEN a.val ELSE 0

NoCall == [fn |-> "none", path |-> "", dir |-> ""]
NoOut == [type |-> 0, err |-> "none", probed |-> FALSE, isFat |-> FALSE]

\* the prober before any call, with no directory described
VolIdle ==
    /\ mux = NoThread
    /\ volMap = <<>> /\ dirKind = <<>> /\ volRejects = <<>>
    /\ isWindows = FALSE
    /\ entries = <<>> /\ gpc = <<>> /\ cur = <<>> /\ out = <<>>
    /\ hist = <<>>

\* lib/fs: EncoderType
EncoderTypeNone == 0
EncoderTypeFat == 1

\* the decorator before it is built
NoName == <<>>
NoDisk == [x \in {} |-> 0]
NoLast == [op |-> "none", name |-> NoName, name2 |-> NoName, passed |-> {},
           err |-> "none", why |-> "none", rname |-> NoName, list |-> NoDisk,
           sname |-> NoName]

FsIdle ==
    /\ encoderType = EncoderTypeNone
    /\ volume = VolumeTypeExt
    /\ pattern = FALSE
    /\ disk = NoDisk
    /\ tpc = <<>>
    /\ last = <<>>
    /\ nfs = 0

TypeIdle ==
    /\ encType = 0
    /\ text = ""
    /\ typeTrace = <<>>

WrapIdle ==
    /\ fileImpl = "basicFile"
    /\ infoImpl = "basicFileInfo"
    /\ isRooter = TRUE
    /\ wrapTrace = <<>>

ToolIdle ==
    /\ scanned = <<>>
    /\ fixMode = "none"
    /\ fixFiles = <<>>
    /\ decodes = {}
    /\ stats = <<>>
    /\ pair = <<>>
    /\ fpc = "idle"

AuxIdle == TypeIdle /\ WrapIdle /\ ToolIdle

VolInit ==
    /\ mux = NoThread
    /\ volMap = [d \in Dirs |-> NoEntry]
    /\ dirKind \in [Dirs -> DirKinds]
    /\ volRejects \in [Dirs -> RejectSets]
    /\ \A d \in Dirs : dirKind[d] # "dir" => volRejects[d] = {}
    /\ isWindows \in BOOLEAN
    /\ entries = [d \in Dirs |-> {}]
    /\ gpc = [t \in Threads |-> "idle"]
    /\ cur = [t \in Threads |-> NoCall]
    /\ out = [t \in Threads |-> NoOut]
    /\ hist = <<>>
    /\ orig = <<>> /\ cs = <<>> /\ trace = <<>>
    /\ FsIdle
    /\ AuxIdle

VolEnv == <<dirKind, volRejects, isWindows>>

\* the number of calls started so far
Started == Len(hist) + Cardinality({t \in Threads : gpc[t] # "idle"})

\* a caller enters GetVolumeType, directly or through IsExt or IsFat
Call(t, fn, path) ==
    /\ gpc[t] = "idle"
    /\ Started < MaxCalls
    /\ cur' = [cur EXCEPT ![t] = [fn |-> fn, path |-> path, dir |-> Clean(path)]]
    /\ out' = [out EXCEPT ![t] = NoOut]
    /\ gpc' = [gpc EXCEPT ![t] = "lock"]
    /\ UNCHANGED <<mux, volMap, VolEnv, entries, hist, codecVars, fsVars, auxVars>>

\* mux.Lock()
Lock(t) ==
    /\ gpc[t] = "lock"
    /\ mux = NoThread
    /\ mux' = t
    /\ gpc' = [gpc EXCEPT ![t] = "load"]
    /\ UNCHANGED <<volMap, VolEnv, entries, cur, out, hist, codecVars, fsVars, auxVars>>

\* the cache lookup at the head of GetVolumeType
Load(t) ==
    /\ gpc[t] = "load"
    /\ LET a == volMap[cur[t].dir]
           found == a # NoEntry
           volumeType == AssertInt(a)
       IN IF found /\ volumeType # VolumeTypeUnknown
          THEN /\ out' = [out EXCEPT ![t] =
                     [type |-> volumeType, err |-> "nil", probed |-> FALSE, isFat |-> FALSE]]
               /\ gpc' = [gpc EXCEPT ![t] = "unlock"]
          ELSE /\ out' = out
               /\ gpc' = [gpc EXCEPT ![t] = "getTempDir"]
    /\ UNCHANGED <<mux, volMap, VolEnv, entries, cur, hist, codecVars, fsVars, auxVars>>

getTempDir_Guess(t) ==
    /\ gpc[t] = "getTempDir"
    /\ LET dir == cur[t].dir
           fail(e) ==
               /\ out' = [out EXCEPT ![t] =
                     [type |-> VolumeTypeExt, err |-> e, probed |-> FALSE, isFat |-> FALSE]]
               /\ gpc' = [gpc EXCEPT ![t] = "unlock"]
               /\ UNCHANGED entries
       IN CASE dirKind[dir] = "missing" -> fail("ErrNotExist")
            [] dirKind[dir] = "file" -> fail("ErrNotADirectory")
            [] dirKind[dir] = "readonly" -> fail("ErrCannotCreateDirectory")
            [] OTHER ->
                /\ entries' = [entries EXCEPT ![dir] = @ \cup {"tempDir"}]
                /\ out' = [out EXCEPT ![t].probed = TRUE]
                /\ gpc' = [gpc EXCEPT ![t] = "isFat"]
    /\ UNCHANGED <<mux, volMap, VolEnv, cur, hist, codecVars, fsVars, auxVars>>

getTempDir_NoIsDir(t) ==
    /\ gpc[t] = "getTempDir"
    /\ LET dir == cur[t].dir
           fail(e) ==
               /\ out' = [out EXCEPT ![t] =
                     [type |-> VolumeTypeUnknown, err |-> e, probed |-> FALSE, isFat |-> FALSE]]
               /\ gpc' = [gpc EXCEPT ![t] = "unlock"]
               /\ UNCHANGED entries
       IN CASE dirKind[dir] = "missing" -> fail("ErrNotExist")
            [] dirKind[dir] \in {"file", "readonly"} -> fail("ErrCannotCreateDirectory")
            [] OTHER ->
                /\ entries' = [entries EXCEPT ![dir] = @ \cup {"tempDir"}]
                /\ out' = [out EXCEPT ![t].probed = TRUE]
                /\ gpc' = [gpc EXCEPT ![t] = "isFat"]
    /\ UNCHANGED <<mux, volMap, VolEnv, cur, hist, codecVars, fsVars, auxVars>>

getTempDir(t) ==
    /\ gpc[t] = "getTempDir"
    /\ LET dir == cur[t].dir
           fail(e) ==
               /\ out' = [out EXCEPT ![t] =
                     [type |-> VolumeTypeUnknown, err |-> e, probed |-> FALSE, isFat |-> FALSE]]
               /\ gpc' = [gpc EXCEPT ![t] = "unlock"]
               /\ UNCHANGED entries
       IN CASE dirKind[dir] = "missing" -> fail("ErrNotExist")
            [] dirKind[dir] = "file" -> fail("ErrNotADirectory")
            [] dirKind[dir] = "readonly" -> fail("ErrCannotCreateDirectory")
            [] OTHER ->
                /\ entries' = [entries EXCEPT ![dir] = @ \cup {"tempDir"}]
                /\ out' = [out EXCEPT ![t].probed = TRUE]
                /\ gpc' = [gpc EXCEPT ![t] = "isFat"]
    /\ UNCHANGED <<mux, volMap, VolEnv, cur, hist, codecVars, fsVars, auxVars>>

\* isFat up to its first MkdirAll
isFatBase(t) ==
    /\ gpc[t] = "isFat"
    /\ LET dir == cur[t].dir
       IN IF dirKind[dir] = "nosubdir"
          THEN /\ out' = [out EXCEPT ![t].type = VolumeTypeUnknown, ![t].err = "ErrMkdirAll"]
               /\ gpc' = [gpc EXCEPT ![t] = "remove"]
               /\ UNCHANGED entries
          ELSE /\ entries' = [entries EXCEPT ![dir] = @ \cup {"tempDir/base"}]
               /\ gpc' = [gpc EXCEPT ![t] = "probe"]
               /\ UNCHANGED out
    /\ UNCHANGED <<mux, volMap, VolEnv, cur, hist, codecVars, fsVars, auxVars>>

isFatLoop_Any(t) ==
    /\ gpc[t] = "probe"
    /\ LET dir == cur[t].dir
       IN /\ out' = [out EXCEPT ![t].isFat =
                 \E r \in reservedFATChars : r \in volRejects[dir]]
          /\ entries' = [entries EXCEPT ![dir] = @ \ {"tempDir/base"}]
    /\ gpc' = [gpc EXCEPT ![t] = "store"]
    /\ UNCHANGED <<mux, volMap, VolEnv, cur, hist, codecVars, fsVars, auxVars>>

\* the loop of isFat: a probe entry that could be created is removed at once,
\* and the deferred os.Remove takes the base entry away
isFatLoop(t) ==
    /\ gpc[t] = "probe"
    /\ LET dir == cur[t].dir
           made == IF \E r \in reservedFATChars : r \notin volRejects[dir]
                   THEN {"tempDir/probe"} ELSE {}
       IN /\ out' = [out EXCEPT ![t].isFat =
                 ~(\E r \in reservedFATChars : r \notin volRejects[dir])]
          /\ entries' = [entries EXCEPT ![dir] = ((@ \cup made) \ made) \ {"tempDir/base"}]
    /\ gpc' = [gpc EXCEPT ![t] = "store"]
    /\ UNCHANGED <<mux, volMap, VolEnv, cur, hist, codecVars, fsVars, auxVars>>

\* volMap.Store(dir, volumeType) and the return statement after it
Store(t) ==
    /\ gpc[t] = "store"
    /\ LET volumeType == IF out[t].isFat THEN VolumeTypeFat ELSE VolumeTypeExt
       IN /\ volMap' = [volMap EXCEPT ![cur[t].dir] = [dyn |-> "VolumeType", val |-> volumeType]]
          /\ out' = [out EXCEPT ![t].type = volumeType, ![t].err = "nil"]
    /\ gpc' = [gpc EXCEPT ![t] = "remove"]
    /\ UNCHANGED <<mux, VolEnv, entries, cur, hist, codecVars, fsVars, auxVars>>

RemoveTempDir_Skip(t) ==
    /\ gpc[t] = "remove"
    /\ gpc' = [gpc EXCEPT ![t] = "unlock"]
    /\ UNCHANGED <<mux, volMap, VolEnv, entries, cur, out, hist, codecVars, fsVars, auxVars>>

\* defer os.Remove(tempDir): it removes the directory when it is empty
RemoveTempDir(t) ==
    /\ gpc[t] = "remove"
    /\ LET dir == cur[t].dir
       IN entries' = [entries EXCEPT ![dir] =
              IF \E e \in @ : e # "tempDir" THEN @ ELSE @ \ {"tempDir"}]
    /\ gpc' = [gpc EXCEPT ![t] = "unlock"]
    /\ UNCHANGED <<mux, volMap, VolEnv, cur, out, hist, codecVars, fsVars, auxVars>>

\* defer mux.Unlock(), and what IsExt and IsFat make of the result
Unlock(t) ==
    /\ gpc[t] = "unlock"
    /\ mux' = NoThread
    /\ LET fn == cur[t].fn
           ok == CASE fn = "IsExt" -> out[t].err = "nil" /\ out[t].type = VolumeTypeExt
                   [] fn = "IsFat" -> out[t].err = "nil" /\ out[t].type = VolumeTypeFat
                   [] OTHER -> out[t].err = "nil"
       IN hist' = Append(hist, [fn |-> fn, dir |-> cur[t].dir, type |-> out[t].type,
                                err |-> out[t].err, ok |-> ok, probed |-> out[t].probed])
    /\ cur' = [cur EXCEPT ![t] = NoCall]
    /\ out' = [out EXCEPT ![t] = NoOut]
    /\ gpc' = [gpc EXCEPT ![t] = "idle"]
    /\ UNCHANGED <<volMap, VolEnv, entries, codecVars, fsVars, auxVars>>

VolNext ==
    \E t \in Threads :
        \/ \E fn \in {"GetVolumeType", "IsExt", "IsFat"}, path \in Paths : Call(t, fn, path)
        \/ Lock(t)
        \/ Load(t)
        \/ getTempDir(t)
        \/ isFatBase(t)
        \/ isFatLoop(t)
        \/ Store(t)
        \/ RemoveTempDir(t)
        \/ Unlock(t)

SpecVol == VolInit /\ [][VolNext]_vars

(***************************************************************************)
(* lib/fs: the encoder decorator over a filesystem rooted at one directory *)
(* of a volume.                                                            *)
(***************************************************************************)
\* the names callers use: "A", "A:", "A*", "A" U+F03A, "A" U+F041, ":" U+F03A
FsNames == {<<65>>, <<65, 58>>, <<65, 42>>, <<65, 61498>>, <<65, 61505>>, <<58, 61498>>}

\* the link targets callers use: "A:", "A*", "A" U+F03A
FsTargets == {<<65, 58>>, <<65, 42>>, <<65, 61498>>}

\* OptionFatEncoder.apply or OptionNoneEncoder.apply over a new filesystem
FsInit ==
    /\ encoderType \in {EncoderTypeNone, EncoderTypeFat}
    /\ volume \in VolumeTypes
    /\ pattern = FALSE
    /\ disk = NoDisk
    /\ tpc = [t \in Threads |-> "idle"]
    /\ last = NoLast
    /\ nfs = 0
    /\ orig = <<>> /\ cs = <<>> /\ trace = <<>>
    /\ VolIdle
    /\ AuxIdle

noneDecode(name) == name

\* a none encoder that escapes like the FAT encoder
noneEncode_Escapes(name, pat) ==
    IF IsEncoded(name) THEN [name |-> NoName, err |-> "ErrNotExist"]
    ELSE [name |-> Encode(name), err |-> "nil"]

noneEncode(name, pat) == [name |-> name, err |-> "nil"]

fatDecode_Never(name) == name

fatDecode(name) == IF ~IsEncoded(name) THEN name ELSE Decode(name)

fatEncode_NoReject(name, pat) ==
    IF ~IsDecoded(name) THEN [name |-> name, err |-> "nil"]
    ELSE IF pattern THEN [name |-> EncodePattern(name), err |-> "nil"]
    ELSE [name |-> Encode(name), err |-> "nil"]

\* the pattern parameter is not read: the mode comes from the field f.pattern
fatEncode(name, pat) ==
    IF IsEncoded(name) THEN [name |-> NoName, err |-> "ErrNotExist"]
    ELSE IF ~IsDecoded(name) THEN [name |-> name, err |-> "nil"]
    ELSE IF pattern THEN [name |-> EncodePattern(name), err |-> "nil"]
    ELSE [name |-> Encode(name), err |-> "nil"]

\* f.Encoder.decode
decode(name) == IF encoderType = EncoderTypeFat THEN fatDecode(name) ELSE noneDecode(name)

\* f.Encoder.encode
encode(name, pat) ==
    IF encoderType = EncoderTypeFat THEN fatEncode(name, pat) ELSE noneEncode(name, pat)

\* encoderFS.rooted: the wrapped filesystem roots the encoded name
rooted(rel) ==
    LET e == encode(rel, pattern)
    IN IF e.err # "nil" THEN [path |-> NoName, err |-> e.err]
       ELSE [path |-> e.name, err |-> "nil"]

\* encoderFS.unrooted
unrooted(path) == decode(path)

\* a FAT-like volume refuses every name with a reserved character in it
VolAccepts(path) == volume = VolumeTypeExt \/ ~IsDecoded(path)

\* the wrapped filesystem resolving a name: through the rooter, then on the volume
Resolve(name) ==
    LET r == rooted(name)
    IN IF r.err # "nil" THEN [path |-> NoName, err |-> r.err, why |-> "encode", passed |-> {}]
       ELSE IF ~VolAccepts(r.path)
            THEN [path |-> r.path, err |-> "ErrInvalid", why |-> "volume", passed |-> {r.path}]
            ELSE [path |-> r.path, err |-> "nil", why |-> "ok", passed |-> {r.path}]

Put(d, n, e) == [x \in (DOMAIN d) \cup {n} |-> IF x = n THEN e ELSE d[x]]

Del(d, n) == [x \in (DOMAIN d) \ {n} |-> d[x]]

File == [kind |-> "file", target |-> NoName]
Dir == [kind |-> "dir", target |-> NoName]

\* the record of a call that failed while resolving its name
Failed(op, name, name2, l) ==
    [op |-> op, name |-> name, name2 |-> name2, passed |-> l.passed,
     err |-> l.err, why |-> l.why, rname |-> NoName, list |-> NoDisk,
     sname |-> NoName]

\* the record of a call that reached the volume with the names in passed
Result(op, name, name2, passed, err, rname, list) ==
    [op |-> op, name |-> name, name2 |-> name2, passed |-> passed,
     err |-> err, why |-> IF err = "nil" THEN "ok" ELSE "state",
     rname |-> rname, list |-> list, sname |-> NoName]

\* filepath.Base: what follows the last separator of a path
Base(path) ==
    LET seps == {i \in 1..Len(path) : path[i] = 47}
    IN IF seps = {} THEN path
       ELSE SubSeq(path, (CHOOSE i \in seps : \A j \in seps : j <= i) + 1, Len(path))

\* encoderFile.Stat: the name reported for the handle opened at the path
encoderFileStat(path) == Base(decode(path))

\* the record of a call that returned the handle opened at the path
Opened(op, name, passed, path) ==
    [Result(op, name, NoName, passed, "nil", name, NoDisk)
        EXCEPT !.sname = encoderFileStat(path)]

\* a caller that is not inside Glob starts a call
Idle(t) == tpc[t] = "idle" /\ nfs < MaxFsCalls

FsFrame ==
    /\ nfs' = nfs + 1
    /\ UNCHANGED <<encoderType, volume, pattern, tpc, codecVars, volVars, auxVars>>

RECURSIVE Final(_, _)
\* the entry a path leads to when symbolic links are followed, NoName if none
Final(path, n) ==
    IF path \notin DOMAIN disk THEN NoName
    ELSE IF disk[path].kind # "symlink" THEN path
    ELSE IF n = 0 THEN NoName
    ELSE Final(disk[path].target, n - 1)

\* a chain of links is no longer than the number of entries
Exists(path) == Final(path, Cardinality(DOMAIN disk)) # NoName

RECURSIVE Match(_, _)
\* filepath.Match for patterns of literals, '*' and '?'
Match(pat, str) ==
    IF pat = <<>> THEN str = <<>>
    ELSE IF Head(pat) = 42
         THEN Match(Tail(pat), str) \/ (str # <<>> /\ Match(pat, Tail(str)))
         ELSE /\ str # <<>>
              /\ (Head(pat) = 63 \/ Head(pat) = Head(str))
              /\ Match(Tail(pat), Tail(str))

Create(t, name) ==
    /\ Idle(t)
    /\ LET l == Resolve(name)
       IN IF l.why # "ok"
          THEN last' = Failed("Create", name, NoName, l) /\ disk' = disk
          ELSE IF l.path \in DOMAIN disk /\ disk[l.path].kind = "dir"
          THEN /\ last' = Result("Create", name, NoName, l.passed, "ErrIsDir", NoName, NoDisk)
               /\ disk' = disk
          ELSE /\ disk' = Put(disk, l.path, File)
               /\ last' = Opened("Create", name, l.passed, l.path)
    /\ FsFrame

Open(t, name) ==
    /\ Idle(t)
    /\ LET l == Resolve(name)
       IN last' = IF l.why # "ok" THEN Failed("Open", name, NoName, l)
                  ELSE IF ~Exists(l.path)
                  THEN Result("Open", name, NoName, l.passed, "ErrNotExist", NoName, NoDisk)
                  ELSE Opened("Open", name, l.passed, l.path)
    /\ disk' = disk
    /\ FsFrame

\* flags is one of O_RDONLY, O_RDWR|O_CREATE and O_RDWR|O_CREATE|O_EXCL
OpenFile(t, name, flags) ==
    /\ Idle(t)
    /\ LET l == Resolve(name)
       IN IF l.why # "ok"
          THEN last' = Failed("OpenFile", name, NoName, l) /\ disk' = disk
          ELSE IF flags = "excl" /\ l.path \in DOMAIN disk
          THEN /\ last' = Result("OpenFile", name, NoName, l.passed, "ErrExist", NoName, NoDisk)
               /\ disk' = disk
          ELSE IF Exists(l.path)
          THEN /\ last' = Opened("OpenFile", name, l.passed, l.path)
               /\ disk' = disk
          ELSE IF flags = "rdonly" \/ l.path \in DOMAIN disk
          THEN /\ last' = Result("OpenFile", name, NoName, l.passed, "ErrNotExist", NoName, NoDisk)
               /\ disk' = disk
          ELSE /\ disk' = Put(disk, l.path, File)
               /\ last' = Opened("OpenFile", name, l.passed, l.path)
    /\ FsFrame

Mkdir(t, name) ==
    /\ Idle(t)
    /\ LET l == Resolve(name)
       IN IF l.why # "ok"
          THEN last' = Failed("Mkdir", name, NoName, l) /\ disk' = disk
          ELSE IF l.path \in DOMAIN disk
          THEN /\ last' = Result("Mkdir", name, NoName, l.passed, "ErrExist", NoName, NoDisk)
               /\ disk' = disk
          ELSE /\ disk' = Put(disk, l.path, Dir)
               /\ last' = Result("Mkdir", name, NoName, l.passed, "nil", NoName, NoDisk)
    /\ FsFrame

MkdirAll(t, name) ==
    /\ Idle(t)
    /\ LET l == Resolve(name)
       IN IF l.why # "ok"
          THEN last' = Failed("MkdirAll", name, NoName, l) /\ disk' = disk
          ELSE IF l.path \in DOMAIN disk
          THEN /\ last' = Result("MkdirAll", name, NoName, l.passed,
                                 IF Exists(l.path) /\ disk[Final(l.path, Cardinality(DOMAIN disk))].kind = "dir"
                                 THEN "nil" ELSE "ErrNotDir", NoName, NoDisk)
               /\ disk' = disk
          ELSE /\ disk' = Put(disk, l.path, Dir)
               /\ last' = Result("MkdirAll", name, NoName, l.passed, "nil", NoName, NoDisk)
    /\ FsFrame

Stat(t, name) ==
    /\ Idle(t)
    /\ LET l == Resolve(name)
       IN last' = IF l.why # "ok" THEN Failed("Stat", name, NoName, l)
                  ELSE IF ~Exists(l.path)
                  THEN Result("Stat", name, NoName, l.passed, "ErrNotExist", NoName, NoDisk)
                  ELSE Result("Stat", name, NoName, l.passed, "nil", Base(name), NoDisk)
    /\ disk' = disk
    /\ FsFrame

Lstat(t, name) ==
    /\ Idle(t)
    /\ LET l == Resolve(name)
       IN last' = IF l.why # "ok" THEN Failed("Lstat", name, NoName, l)
                  ELSE IF l.path \notin DOMAIN disk
                  THEN Result("Lstat", name, NoName, l.passed, "ErrNotExist", NoName, NoDisk)
                  ELSE Result("Lstat", name, NoName, l.passed, "nil", Base(name), NoDisk)
    /\ disk' = disk
    /\ FsFrame

Remove(t, name) ==
    /\ Idle(t)
    /\ LET l == Resolve(name)
       IN IF l.why # "ok"
          THEN last' = Failed("Remove", name, NoName, l) /\ disk' = disk
          ELSE IF l.path \notin DOMAIN disk
          THEN /\ last' = Result("Remove", name, NoName, l.passed, "ErrNotExist", NoName, NoDisk)
               /\ disk' = disk
          ELSE /\ disk' = Del(disk, l.path)
               /\ last' = Result("Remove", name, NoName, l.passed, "nil", NoName, NoDisk)
    /\ FsFrame

RemoveAll(t, name) ==
    /\ Idle(t)
    /\ LET l == Resolve(name)
       IN IF l.why # "ok"
          THEN last' = Failed("RemoveAll", name, NoName, l) /\ disk' = disk
          ELSE /\ disk' = Del(disk, l.path)
               /\ last' = Result("RemoveAll", name, NoName, l.passed, "nil", NoName, NoDisk)
    /\ FsFrame

\* both names are rooted before the volume is asked to rename
Rename(t, old, new) ==
    /\ Idle(t)
    /\ LET ro == rooted(old)
           rn == rooted(new)
           both == {ro.path, rn.path}
           noEncode == [path |-> NoName, err |-> "ErrNotExist", why |-> "encode", passed |-> {}]
           noVolume == [path |-> NoName, err |-> "ErrInvalid", why |-> "volume", passed |-> both]
       IN IF ro.err # "nil" \/ rn.err # "nil"
          THEN last' = Failed("Rename", old, new, noEncode) /\ disk' = disk
          ELSE IF ~VolAccepts(ro.path) \/ ~VolAccepts(rn.path)
          THEN last' = Failed("Rename", old, new, noVolume) /\ disk' = disk
          ELSE IF ro.path \notin DOMAIN disk
          THEN /\ last' = Result("Rename", old, new, both, "ErrNotExist", NoName, NoDisk)
               /\ disk' = disk
          ELSE IF rn.path \in DOMAIN disk /\ disk[rn.path].kind = "dir" /\ rn.path # ro.path
          THEN /\ last' = Result("Rename", old, new, both, "ErrExist", NoName, NoDisk)
               /\ disk' = disk
          ELSE /\ disk' = Put(Del(disk, ro.path), rn.path, disk[ro.path])
               /\ last' = Result("Rename", old, new, both, "nil", NoName, NoDisk)
    /\ FsFrame

Chtimes(t, name) ==
    /\ Idle(t)
    /\ LET l == Resolve(name)
       IN last' = IF l.why # "ok" THEN Failed("Chtimes", name, NoName, l)
                  ELSE IF ~Exists(l.path)
                  THEN Result("Chtimes", name, NoName, l.passed, "ErrNotExist", NoName, NoDisk)
                  ELSE Result("Chtimes", name, NoName, l.passed, "nil", NoName, NoDisk)
    /\ disk' = disk
    /\ FsFrame

\* the target is encoded by the decorator, the name by the rooter
CreateSymlink(t, target, name) ==
    /\ Idle(t)
    /\ LET e == encode(target, FALSE)
           l == Resolve(name)
           noEncode == [path |-> NoName, err |-> e.err, why |-> "encode", passed |-> {}]
       IN IF e.err # "nil"
          THEN last' = Failed("CreateSymlink", name, target, noEncode) /\ disk' = disk
          ELSE IF l.why # "ok"
          THEN last' = Failed("CreateSymlink", name, target, l) /\ disk' = disk
          ELSE IF l.path \in DOMAIN disk
          THEN /\ last' = Result("CreateSymlink", name, target, l.passed \cup {e.name},
                                 "ErrExist", NoName, NoDisk)
               /\ disk' = disk
          ELSE /\ disk' = Put(disk, l.path, [kind |-> "symlink", target |-> e.name])
               /\ last' = Result("CreateSymlink", name, target, l.passed \cup {e.name},
                                 "nil", NoName, NoDisk)
    /\ FsFrame

ReadSymlink(t, name) ==
    /\ Idle(t)
    /\ LET l == Resolve(name)
       IN last' = IF l.why # "ok" THEN Failed("ReadSymlink", name, NoName, l)
                  ELSE IF l.path \notin DOMAIN disk
                  THEN Result("ReadSymlink", name, NoName, l.passed, "ErrNotExist", NoName, NoDisk)
                  ELSE IF disk[l.path].kind # "symlink"
                  THEN Result("ReadSymlink", name, NoName, l.passed, "ErrInvalid", NoName, NoDisk)
                  ELSE Result("ReadSymlink", name, NoName, l.passed, "nil",
                              decode(disk[l.path].target), NoDisk)
    /\ disk' = disk
    /\ FsFrame

\* DirNames of the root: the returned name of every entry, by entry
DirNames(t) ==
    /\ Idle(t)
    /\ last' = Result("DirNames", NoName, NoName, {}, "nil", NoName,
                      [d \in DOMAIN disk |-> decode(d)])
    /\ disk' = disk
    /\ FsFrame

\* Glob up to the call of the wrapped filesystem: f.pattern = true
GlobBegin(t) ==
    /\ Idle(t)
    /\ pattern' = TRUE
    /\ tpc' = [tpc EXCEPT ![t] = "glob"]
    /\ nfs' = nfs + 1
    /\ UNCHANGED <<encoderType, volume, disk, last, codecVars, volVars, auxVars>>

\* the wrapped filesystem's Glob: it roots the pattern, matches the entries
\* of the volume against it and unroots the matches
GlobResolve(t, pat) ==
    /\ tpc[t] = "glob"
    /\ LET r == rooted(pat)
           noEncode == [path |-> NoName, err |-> r.err, why |-> "encode", passed |-> {}]
           files == {d \in DOMAIN disk : Match(r.path, d)}
       IN last' = IF r.err # "nil" THEN Failed("Glob", pat, NoName, noEncode)
                  ELSE Result("Glob", pat, NoName, {r.path}, "nil", NoName,
                              [d \in files |-> unrooted(d)])
    /\ tpc' = [tpc EXCEPT ![t] = "globRet"]
    /\ UNCHANGED <<encoderType, volume, pattern, disk, nfs, codecVars, volVars, auxVars>>

\* Glob after the call: f.pattern = false, and the return
GlobEnd(t) ==
    /\ tpc[t] = "globRet"
    /\ pattern' = FALSE
    /\ tpc' = [tpc EXCEPT ![t] = "idle"]
    /\ UNCHANGED <<encoderType, volume, disk, last, nfs, codecVars, volVars, auxVars>>

FsNext ==
    \E t \in Threads :
        \/ \E name \in FsNames : Create(t, name)
        \/ \E name \in FsNames : Open(t, name)
        \/ \E name \in FsNames, flags \in {"rdonly", "create", "excl"} : OpenFile(t, name, flags)
        \/ \E name \in FsNames : Mkdir(t, name)
        \/ \E name \in FsNames : MkdirAll(t, name)
        \/ \E name \in FsNames : Stat(t, name)
        \/ \E name \in FsNames : Lstat(t, name)
        \/ \E name \in FsNames : Remove(t, name)
        \/ \E name \in FsNames : RemoveAll(t, name)
        \/ \E old \in FsNames, new \in FsNames : Rename(t, old, new)
        \/ \E name \in FsNames : Chtimes(t, name)
        \/ \E target \in FsTargets, name \in FsNames : CreateSymlink(t, target, name)
        \/ \E name \in FsNames : ReadSymlink(t, name)
        \/ DirNames(t)
        \/ GlobBegin(t)
        \/ \E pat \in FsNames : GlobResolve(t, pat)
        \/ GlobEnd(t)

SpecFs == FsInit /\ [][FsNext]_vars

(***************************************************************************)
(* The decorator on a volume that held entries before it was built.        *)
(***************************************************************************)
\* names stored by other means: with a raw Reserved character, in escaped
\* form, and with an escape-region character that is no image
PreNames == {<<65, 42>>, <<65, 61482>>, <<65, 61498>>, <<61505, 61482>>, <<65, 61505>>}

ListInit ==
    /\ encoderType \in {EncoderTypeNone, EncoderTypeFat}
    /\ volume \in VolumeTypes
    /\ pattern = FALSE
    /\ \E N \in SUBSET {n \in PreNames : VolAccepts(n)} : disk = [n \in N |-> File]
    /\ tpc = [t \in Threads |-> "idle"]
    /\ last = NoLast
    /\ nfs = 0
    /\ orig = <<>> /\ cs = <<>> /\ trace = <<>>
    /\ VolIdle
    /\ AuxIdle

ListNext ==
    \E t \in Threads :
        \/ DirNames(t)
        \/ \E name \in FsNames : Create(t, name)
        \/ \E name \in FsNames : Remove(t, name)
        \/ \E old \in FsNames, new \in FsNames : Rename(t, old, new)
        \/ GlobBegin(t)
        \/ \E pat \in FsNames : GlobResolve(t, pat)
        \/ GlobEnd(t)

SpecList == ListInit /\ [][ListNext]_vars

(***************************************************************************)
(* Inputs of the codec.                                                    *)
(***************************************************************************)
\* every code point the tables and the escape region cover, and their borders
FullRunes ==
    (0..NumChars) \cup ((BaseRune - 1)..(BaseRune + NumChars))
        \cup {2047, 2048, ReplacementChar, 65535, 65536, MaxRune}

\* the units longer strings are built from
SmallRunes ==
    {0, 1, 42, 47, 58, 63, 65, 92, 61440, 61482, 61487, 61498, 61505, BadByte}

RECURSIVE StringsUpTo(_, _)
StringsUpTo(S, n) ==
    IF n = 0 THEN {<<>>}
    ELSE LET shorter == StringsUpTo(S, n - 1)
         IN shorter \cup {Append(s, c) : s \in {t \in shorter : Len(t) = n - 1}, c \in S}

CodecInputs == {<<c>> : c \in FullRunes} \cup StringsUpTo(SmallRunes, MaxLen)

(***************************************************************************)
(* The codec as a state machine: an input string, and a chain of calls     *)
(* each applied to the result of the one before.                           *)
(***************************************************************************)
CodecInit ==
    /\ orig \in CodecInputs
    /\ cs = orig
    /\ trace = <<>>
    /\ VolIdle
    /\ FsIdle
    /\ AuxIdle

CallEncode ==
    /\ Len(trace) < MaxOps
    /\ cs' = Encode(cs)
    /\ trace' = Append(trace, "Encode")
    /\ UNCHANGED <<orig, volVars, fsVars, auxVars>>

CallDecode ==
    /\ Len(trace) < MaxOps
    /\ cs' = Decode(cs)
    /\ trace' = Append(trace, "Decode")
    /\ UNCHANGED <<orig, volVars, fsVars, auxVars>>

CallEncodePattern ==
    /\ Len(trace) < MaxOps
    /\ cs' = EncodePattern(cs)
    /\ trace' = Append(trace, "EncodePattern")
    /\ UNCHANGED <<orig, volVars, fsVars, auxVars>>

CodecNext == CallEncode \/ CallDecode \/ CallEncodePattern

SpecCodec == CodecInit /\ [][CodecNext]_vars

(***************************************************************************)
(* The text form of the encoder type (lib/fs/types.go).                    *)
(***************************************************************************)
EncoderTypeUnset == -1

\* the values an EncoderType variable can hold: the three named ones and
\* two integers that name nothing
EncoderTypeValues == {EncoderTypeUnset, EncoderTypeNone, EncoderTypeFat, 2, -2}

\* the texts a configuration can hold
Texts == {"none", "fat", "unset", "unknown", "", "NONE", "ext", "fat "}

String(t) ==
    CASE t = EncoderTypeNone -> "none"
      [] t = EncoderTypeFat -> "fat"
      [] t = EncoderTypeUnset -> "unset"
      [] OTHER -> "unknown"

MarshalText(t) == [text |-> String(t), err |-> "nil"]

\* the variant of UnmarshalText that names "unset" and reads every other
\* text as the none encoder
UnmarshalText_DefaultNone(bs) ==
    CASE bs = "none" -> [t |-> EncoderTypeNone, err |-> "nil"]
      [] bs = "fat" -> [t |-> EncoderTypeFat, err |-> "nil"]
      [] bs = "unset" -> [t |-> EncoderTypeUnset, err |-> "nil"]
      [] OTHER -> [t |-> EncoderTypeNone, err |-> "nil"]

UnmarshalText(bs) ==
    CASE bs = "none" -> [t |-> EncoderTypeNone, err |-> "nil"]
      [] bs = "fat" -> [t |-> EncoderTypeFat, err |-> "nil"]
      [] OTHER -> [t |-> EncoderTypeUnset, err |-> "nil"]

TypeInit ==
    /\ encType \in EncoderTypeValues
    /\ text \in Texts
    /\ typeTrace = <<>>
    /\ orig = <<>> /\ cs = <<>> /\ trace = <<>>
    /\ VolIdle
    /\ FsIdle
    /\ WrapIdle
    /\ ToolIdle

\* bs, err := t.MarshalText()
CallMarshalText ==
    /\ Len(typeTrace) < MaxTypeOps
    /\ text' = MarshalText(encType).text
    /\ typeTrace' = Append(typeTrace,
           [op |-> "MarshalText", t |-> encType, bs |-> text',
            err |-> MarshalText(encType).err])
    /\ UNCHANGED <<encType, codecVars, volVars, fsVars, wrapVars, toolVars>>

\* err := t.UnmarshalText(bs)
CallUnmarshalText ==
    /\ Len(typeTrace) < MaxTypeOps
    /\ encType' = UnmarshalText(text).t
    /\ typeTrace' = Append(typeTrace,
           [op |-> "UnmarshalText", t |-> encType', bs |-> text,
            err |-> UnmarshalText(text).err])
    /\ UNCHANGED <<text, codecVars, volVars, fsVars, wrapVars, toolVars>>

TypeNext == CallMarshalText \/ CallUnmarshalText

SpecTypes == TypeInit /\ [][TypeNext]_vars

(***************************************************************************)
(* The rewrapping of the wrapped filesystem's results (encoderFS.Create,   *)
(* Open, OpenFile, Stat, Lstat, encoderFile.Stat) and the calls passed to  *)
(* its Rooter (SetRooter, rooted, unrooted).                               *)
(***************************************************************************)
FileImpls == {"basicFile", "fakeFile", "other"}
InfoImpls == {"basicFileInfo", "fakeFileInfo", "other"}

\* the type switch on a handle: what the caller gets
wrapFile(fd) ==
    CASE fd = "basicFile" -> "encoderFile"
      [] fd = "fakeFile" -> "fakeFile"
      [] OTHER -> "error"

\* the type switch on a file information
wrapInfo(fi) ==
    CASE fi = "basicFileInfo" -> "encoderFileInfo"
      [] fi = "fakeFileInfo" -> "fakeFileInfo"
      [] OTHER -> "error"

\* encoderFile.Stat has no case for the test double
wrapFileStat(fi) == IF fi = "basicFileInfo" THEN "encoderFileInfo" ELSE "error"

\* the cast of the wrapped filesystem to Rooter
castRooter == IF isRooter THEN "ok" ELSE "panic"

WrapInit ==
    /\ fileImpl \in FileImpls
    /\ infoImpl \in InfoImpls
    /\ isRooter \in BOOLEAN
    /\ wrapTrace = <<>>
    /\ orig = <<>> /\ cs = <<>> /\ trace = <<>>
    /\ VolIdle
    /\ FsIdle
    /\ TypeIdle
    /\ ToolIdle

\* a panic ends the program
Running ==
    /\ Len(wrapTrace) < MaxWrapOps
    /\ \A i \in 1..Len(wrapTrace) : wrapTrace[i].outcome # "panic"

\* the call op whose wrapped call returned err ends with outcome
Outcome(op, err, outcome) ==
    /\ wrapTrace' = Append(wrapTrace,
           [op |-> op, err |-> err,
            outcome |-> IF err # "nil" THEN "error" ELSE outcome])
    /\ UNCHANGED <<fileImpl, infoImpl, isRooter, codecVars, volVars, fsVars, typeVars, toolVars>>

WrapCreate(err) == Running /\ Outcome("Create", err, wrapFile(fileImpl))

WrapOpen(err) == Running /\ Outcome("Open", err, wrapFile(fileImpl))

WrapOpenFile(err) == Running /\ Outcome("OpenFile", err, wrapFile(fileImpl))

WrapStat(err) == Running /\ Outcome("Stat", err, wrapInfo(infoImpl))

WrapLstat(err) == Running /\ Outcome("Lstat", err, wrapInfo(infoImpl))

\* Stat on a handle the decorator wrapped
WrapFileStat(err) ==
    /\ Running
    /\ fileImpl = "basicFile"
    /\ Outcome("File.Stat", err, wrapFileStat(infoImpl))

WrapSetRooter == Running /\ Outcome("SetRooter", "nil", castRooter)

\* err is the error of encoding the name, returned before the cast
WrapRooted(err) == Running /\ Outcome("rooted", err, castRooter)

WrapUnrooted == Running /\ Outcome("unrooted", "nil", castRooter)

WrapNext ==
    \/ \E err \in {"nil", "ErrNotExist"} :
          \/ WrapCreate(err)
          \/ WrapOpen(err)
          \/ WrapOpenFile(err)
          \/ WrapStat(err)
          \/ WrapLstat(err)
          \/ WrapFileStat(err)
          \/ WrapRooted(err)
    \/ WrapSetRooter
    \/ WrapUnrooted

SpecWrap == WrapInit /\ [][WrapNext]_vars

(***************************************************************************)
(* The tool that finds and fixes duplicates: findDuplicates on one         *)
(* directory of a volume that stores every name as it is given.            *)
(***************************************************************************)
\* the names the directory can hold: one regular name and two Reserved
\* names, each with its encoded form
ToolNames == {<<65>>, <<65, 58>>, <<65, 61498>>, <<65, 42>>, <<65, 61482>>}

FixModes == {"encoded", "decoded", "listOnly"}

NoPair == [e |-> NoName, d |-> NoName, action |-> "none"]

NoStats == [regular |-> 0, encodes |-> 0, decodes |-> 0, duplicates |-> 0,
            fixed |-> 0, skipped |-> 0]

RECURSIVE LexLess(_, _)
\* the order of slices.Sort on strings
LexLess(a, b) ==
    IF b = <<>> THEN FALSE
    ELSE IF a = <<>> THEN TRUE
    ELSE IF Head(a) # Head(b) THEN Head(a) < Head(b)
    ELSE LexLess(Tail(a), Tail(b))

RECURSIVE Sorted(_)
\* the names of a set in ascending order
Sorted(S) ==
    IF S = {} THEN <<>>
    ELSE LET m == CHOOSE x \in S : \A y \in S \ {x} : LexLess(x, y)
         IN <<m>> \o Sorted(S \ {m})

\* an entry is a file or a directory; content tells the entries apart
ToolDirs ==
    UNION {[N -> {"file", "dir"}] : N \in SUBSET ToolNames}

ToolInit ==
    /\ \E kinds \in ToolDirs :
          scanned = [n \in DOMAIN kinds |-> [kind |-> kinds[n], content |-> n]]
    /\ fixMode \in FixModes
    /\ fixFiles = <<>>
    /\ decodes = {}
    /\ stats = NoStats
    /\ pair = NoPair
    /\ fpc = "start"
    /\ orig = <<>> /\ cs = <<>> /\ trace = <<>>
    /\ VolIdle
    /\ FsIdle
    /\ TypeIdle
    /\ WrapIdle

ToolFrame == UNCHANGED <<fixMode, codecVars, volVars, fsVars, typeVars, wrapVars>>

\* vfs.DirNames, the map of decoded names, slices.Sort
ScanDir ==
    /\ fpc = "start"
    /\ decodes' = {Decode(f) : f \in {g \in DOMAIN scanned : IsDecoded(g)}}
    /\ fixFiles' = Sorted(DOMAIN scanned)
    /\ fpc' = "loop"
    /\ UNCHANGED <<scanned, stats, pair>>
    /\ ToolFrame

\* the action the mode selects for a pair
ActionOf(mode) ==
    CASE mode = "decoded" -> "actionKeepDecoded"
      [] mode = "encoded" -> "actionKeepEncoded"
      [] OTHER -> "actionSkip"

\* os.Rename fails when old is gone, and when a directory is to replace a
\* file or a file a directory
RenameFails(d, old, new) ==
    \/ old \notin DOMAIN d
    \/ new \in DOMAIN d /\ d[new].kind # d[old].kind

\* the directory after the action on the pair, and whether log.Fatalf ended
\* the run
Applied(d, action, eFile, dFile) ==
    CASE action = "actionKeepDecoded" ->
             [dir |-> Del(d, eFile), fatal |-> FALSE]
      [] action = "actionKeepEncoded" ->
             LET d1 == IF d[dFile].kind = "dir" THEN Del(d, dFile) ELSE d
             IN IF RenameFails(d1, eFile, dFile)
                THEN [dir |-> d1, fatal |-> TRUE]
                ELSE [dir |-> Put(Del(d1, eFile), dFile, d1[eFile]), fatal |-> FALSE]
      [] OTHER -> [dir |-> d, fatal |-> FALSE]

\* one round of the loop over the sorted listing
NextFile ==
    /\ fpc = "loop"
    /\ fixFiles # <<>>
    /\ fixFiles' = Tail(fixFiles)
    /\ decodes' = decodes
    /\ LET eFile == Head(fixFiles)
           dFile == Decode(eFile)
           action == ActionOf(fixMode)
           a == Applied(scanned, action, eFile, dFile)
           count(field) == [stats EXCEPT ![field] = @ + 1]
       IN IF ~IsEncoded(eFile)
          THEN /\ stats' = IF ~IsDecoded(eFile) THEN count("regular")
                           ELSE IF dFile \notin decodes THEN count("decodes")
                           ELSE stats
               /\ UNCHANGED <<scanned, pair, fpc>>
          ELSE IF dFile \notin decodes
          THEN /\ stats' = count("encodes")
               /\ UNCHANGED <<scanned, pair, fpc>>
          ELSE IF dFile \notin DOMAIN scanned \/ eFile \notin DOMAIN scanned
          THEN /\ stats' = count("duplicates")
               /\ UNCHANGED <<scanned, pair, fpc>>
          ELSE /\ scanned' = a.dir
               /\ pair' = [e |-> eFile, d |-> dFile, action |-> action]
               /\ fpc' = IF a.fatal THEN "fatal" ELSE "loop"
               /\ stats' = [stats EXCEPT
                      !.duplicates = @ + 1,
                      !.fixed = IF action # "actionSkip" /\ ~a.fatal THEN @ + 1 ELSE @,
                      !.skipped = IF action = "actionSkip" THEN @ + 1 ELSE @]
    /\ ToolFrame

\* the listing is exhausted: the totals are printed
Report ==
    /\ fpc = "loop"
    /\ fixFiles = <<>>
    /\ fpc' = "done"
    /\ UNCHANGED <<scanned, fixFiles, decodes, stats, pair>>
    /\ ToolFrame

ToolNext == ScanDir \/ NextFile \/ Report

SpecTool == ToolInit /\ [][ToolNext]_vars

(***************************************************************************)
(* Properties of the codec.                                                *)
(***************************************************************************)
\* s is a sequence of code points: no unit of it is a bad byte
IsCodePoints(s) == \A i \in 1..Len(s) : s[i] # BadByte

InEscapeRegion(c) == c >= BaseRune /\ c < BaseRune + NumChars

NoEscapeRegion(s) == \A i \in 1..Len(s) : ~InEscapeRegion(s[i])

\* C1: round trip. For every string of code points with no code point in the
\* escape region [0xF000, 0xF100), Decode(Encode(s)) = s, whatever mix of
\* Reserved characters and of NUL, '/' and '\' it holds.
C1_RoundTrip ==
    (trace = <<"Encode", "Decode">> /\ IsCodePoints(orig) /\ NoEscapeRegion(orig))
        => cs = orig

C1_Witness ==
    /\ trace = <<"Encode", "Decode">>
    /\ IsCodePoints(orig) /\ NoEscapeRegion(orig)
    /\ \E i \in 1..Len(orig) : orig[i] \in Encodes
    /\ \E i \in 1..Len(orig) : orig[i] \in Nevers
    /\ cs = orig

\* C7: Encode maps each code point on its own: a Reserved code point c
\* becomes BaseRune + c, every other code point is emitted unchanged (NUL,
\* '/', '\', the rest below 0x100, the escape region and all above it).
C7_EncodePerCodePoint ==
    (trace = <<"Encode">> /\ IsCodePoints(orig))
        => /\ Len(cs) = Len(orig)
           /\ \A i \in 1..Len(orig) :
                cs[i] = IF orig[i] \in Encodes THEN BaseRune + orig[i] ELSE orig[i]

C7_Witness ==
    /\ trace = <<"Encode">>
    /\ orig = <<58, 47, 61498>>
    /\ cs = <<61498, 47, 61498>>

\* C8: Decode is total: an escape-region code point whose low byte is a
\* Reserved character becomes that character, every other code point
\* (U+F000, U+F02F, U+F05C, U+F041 among them) is emitted unchanged.
C8_DecodePerCodePoint ==
    (trace = <<"Decode">> /\ IsCodePoints(orig))
        => /\ Len(cs) = Len(orig)
           /\ \A i \in 1..Len(orig) :
                cs[i] = IF InEscapeRegion(orig[i]) /\ (orig[i] % 256) \in Encodes
                        THEN orig[i] % 256
                        ELSE orig[i]

C8_Witness ==
    /\ trace = <<"Decode">>
    /\ orig = <<61498, 61505, 61487>>
    /\ cs = <<58, 61505, 61487>>

\* C9: EncodePattern(p) equals Encode(p) at every position but those holding
\* '*' or '?', which stay as they are: "*:" becomes "*", ":*:" becomes
\* "*", and without '*' and '?' both encoders agree.
C9_PatternExemption ==
    (trace = <<"EncodePattern">>)
        => /\ Len(cs) = Len(orig)
           /\ \A i \in 1..Len(orig) :
                cs[i] = IF orig[i] \in {42, 63} THEN orig[i] ELSE Encode(orig)[i]
           /\ (orig = <<42, 58>> => cs = <<42, 61498>>)
           /\ (orig = <<58, 42, 58>> => cs = <<61498, 42, 61498>>)
           /\ ((\A i \in 1..Len(orig) : orig[i] \notin {42, 63}) => cs = Encode(orig))

C9_Witness ==
    /\ trace = <<"EncodePattern">>
    /\ orig = <<58, 42, 58>>
    /\ cs = <<61498, 42, 61498>>

\* C10: the escape mapping f(c) = BaseRune + c is a bijection on Reserved:
\* distinct Reserved characters have distinct images, every image lies in
\* [BaseRune, BaseRune + NumChars), decoding an image gives the character
\* back, and Reserved is disjoint from the never-escaped NUL, '/' and '\'.
C10_Bijective ==
    /\ Encodes \cap Nevers = {}
    /\ (trace = <<"Encode">> /\ Len(orig) = 1 /\ orig[1] \in Encodes)
        => /\ cs = <<BaseRune + orig[1]>>
           /\ InEscapeRegion(cs[1])
           /\ \A c2 \in Encodes \ {orig[1]} : puaEncodingTransformer(c2) # cs[1]
    /\ (trace = <<"Encode", "Decode">> /\ Len(orig) = 1 /\ orig[1] \in Encodes)
        => cs = orig

C10_Witness ==
    /\ trace = <<"Encode", "Decode">>
    /\ orig = <<124>>
    /\ cs = <<124>>

(***************************************************************************)
(* Properties of the prober.                                               *)
(***************************************************************************)
\* C5: volume probing determinism. Two successive successful calls of
\* GetVolumeType on the same canonical directory return the identical
\* classification, and the second is answered from the cache without
\* creating a probe directory.
C5_ProbeDeterminism ==
    \A i \in 1..Len(hist), j \in 1..Len(hist) :
        (i < j /\ hist[i].dir = hist[j].dir
            /\ hist[i].err = "nil" /\ hist[j].err = "nil")
        => (hist[j].type = hist[i].type /\ ~hist[j].probed)

(***************************************************************************)
(* Properties of the decorator.                                            *)
(***************************************************************************)
\* the operations that take the name of an entry
NameOps == {"Create", "Open", "OpenFile", "Mkdir", "MkdirAll", "Stat", "Lstat",
            "Remove", "RemoveAll", "Rename", "Chtimes", "CreateSymlink", "ReadSymlink"}

\* the names a call was made with
NamesOf(l) == {l.name} \cup (IF l.name2 = NoName THEN {} ELSE {l.name2})

\* the step is a whole call of an operation that is not Glob
IsCallStep == nfs' = nfs + 1 /\ tpc' = tpc

\* C2: rejection of pre-encoded input. With the FAT encoder, every operation
\* that takes a name, called with a name for which IsEncoded is true (for
\* Rename either name, for CreateSymlink the target or the name), fails with
\* "does not exist" on every volume, passes no name to the wrapped filesystem
\* and creates no entry.
C2_RejectsEncoded ==
    [][(/\ IsCallStep
        /\ encoderType = EncoderTypeFat
        /\ last'.op \in NameOps
        /\ \E n \in NamesOf(last') : IsEncoded(n))
       => (/\ last'.err = "ErrNotExist"
           /\ last'.why = "encode"
           /\ last'.passed = {}
           /\ disk' = disk)]_vars

C2_Witness ==
    /\ encoderType = EncoderTypeFat
    /\ volume = VolumeTypeExt
    /\ last.op = "Create"
    /\ last.name = <<65, 61498>>
    /\ last.err = "ErrNotExist"
    /\ last.passed = {}
    /\ disk = NoDisk

\* C3: Create through the FAT encoder with a name that holds Reserved
\* characters and no encoded character succeeds, also on a volume that
\* refuses every name with a Reserved character; the name stored on the
\* volume is Encode(name) and Name() of the handle is the name itself.
C3_CreateReserved ==
    (/\ encoderType = EncoderTypeFat
     /\ last.op = "Create"
     /\ IsDecoded(last.name) /\ ~IsEncoded(last.name)
     /\ last.why # "state")
    => (/\ last.err = "nil"
        /\ last.passed = {Encode(last.name)}
        /\ Encode(last.name) \in DOMAIN disk
        /\ last.rname = last.name)

\* the three classes of names of the outcome matrix
IsRegularName(n) == ~IsDecoded(n) /\ ~IsEncoded(n)
IsDecodedName(n) == IsDecoded(n) /\ ~IsEncoded(n)
IsEncodedName(n) == IsEncoded(n) /\ ~IsDecoded(n)

\* the call failed because of its name, not because of the entries there are
NameFailed(l) == l.why \in {"encode", "volume"}

\* C4: outcome matrix by (volume type, encoder type) for every operation
\* that takes one name. A name with neither Reserved nor encoded characters
\* is never refused; a name with a Reserved character is refused on Fat/None
\* only; a name with an encoded character is refused with the FAT encoder
\* only.
C4_OutcomeMatrix ==
    (last.op \in NameOps /\ last.name2 = NoName)
    => /\ IsRegularName(last.name) => ~NameFailed(last)
       /\ IsDecodedName(last.name) =>
            (NameFailed(last) <=>
                (volume = VolumeTypeFat /\ encoderType = EncoderTypeNone))
       /\ IsEncodedName(last.name) =>
            (NameFailed(last) <=> encoderType = EncoderTypeFat)

\* what the full and the pattern encoder of the FAT encoder make of a name
FullEncoded(n) == IF IsDecoded(n) THEN Encode(n) ELSE n
PatternEncoded(n) == IF IsDecoded(n) THEN EncodePattern(n) ELSE n

\* C6: the pattern flag of Glob never leaks across concurrent calls on one
\* instance. The names an operation other than Glob hands to the wrapped
\* filesystem are encoded with the full encoder, '*' and '?' escaped, and
\* the pattern of every Glob is encoded with the pattern encoder.
C6_NoPatternLeak ==
    (/\ encoderType = EncoderTypeFat
     /\ last.op \in NameOps \cup {"Glob"}
     /\ last.why # "encode")
    => last.passed = IF last.op = "Glob"
                     THEN {PatternEncoded(last.name)}
                     ELSE {FullEncoded(n) : n \in NamesOf(last)}

\* the name under which a call makes an entry
GivenName(l) == IF l.op = "Rename" THEN l.name2 ELSE l.name

\* C11: directory listing through the FAT encoder decodes every entry. For
\* every entry d of the volume DirNames returns Decode(d) at the place of d,
\* and every entry made through the decorator is stored under a name that
\* decodes to the name the caller gave, so the listing shows the callers'
\* names and never their encoded forms.
C11_DirNamesDecodes ==
    [][(IsCallStep /\ encoderType = EncoderTypeFat)
       => /\ last'.op = "DirNames"
              => /\ DOMAIN last'.list = DOMAIN disk
                 /\ \A d \in DOMAIN disk : last'.list[d] = Decode(d)
          /\ \A d \in (DOMAIN disk') \ (DOMAIN disk) : Decode(d) = GivenName(last')]_vars

C11_Witness ==
    /\ encoderType = EncoderTypeFat
    /\ last.op = "DirNames"
    /\ DOMAIN disk = {<<65, 61498>>}
    /\ last.list[<<65, 61498>>] = <<65, 58>>

\* C12: symlink round trip through the FAT encoder. For a target and a name
\* with Reserved characters and no encoded character, CreateSymlink stores
\* the link under Encode(name) with Encode(target) as its target, and
\* ReadSymlink of the name gives back the target the caller passed.
C12_SymlinkRoundTrip ==
    /\ (/\ encoderType = EncoderTypeFat
        /\ last.op = "CreateSymlink"
        /\ IsDecodedName(last.name) /\ IsDecodedName(last.name2)
        /\ last.why # "state")
       => /\ last.err = "nil"
          /\ Encode(last.name) \in DOMAIN disk
          /\ disk[Encode(last.name)] = [kind |-> "symlink", target |-> Encode(last.name2)]
    /\ (/\ encoderType = EncoderTypeFat
        /\ last.op = "ReadSymlink"
        /\ IsDecodedName(last.name)
        /\ last.err = "nil")
       => /\ Encode(last.name) \in DOMAIN disk
          /\ disk[Encode(last.name)].target = Encode(last.rname)

\* a caller returns from Glob in this step
IsGlobReturn == \E t \in Threads : tpc[t] = "globRet" /\ tpc'[t] = "idle"

\* C13: Glob sets the pattern mode for the duration of the call only. The
\* pattern a Glob hands to the volume has '*' and '?' unchanged and every
\* other Reserved character replaced by its image; when Glob returns, with
\* matches or with an error, the flag is false again, and a call other than
\* Glob made once every Glob has returned escapes '*' and '?' too.
C13_GlobPatternMode ==
    /\ []((/\ encoderType = EncoderTypeFat
           /\ last.op = "Glob"
           /\ last.why # "encode")
          => last.passed = {PatternEncoded(last.name)})
    /\ [][/\ IsGlobReturn => pattern' = FALSE
          /\ (/\ IsCallStep
              /\ encoderType = EncoderTypeFat
              /\ \A t \in Threads : tpc[t] = "idle"
              /\ last'.op \in NameOps
              /\ last'.why # "encode")
             => last'.passed = {FullEncoded(n) : n \in NamesOf(last')}]_vars

\* the calls made so far on a directory of the kind k
CallsOn(k) == {i \in 1..Len(hist) : dirKind[hist[i].dir] = k}

\* C14 as stated: GetVolumeType fails with ErrNotADirectory when dir does
\* not exist or is not a directory, and with ErrCannotCreateDirectory when
\* the probe directory cannot be created under dir.
C14_ErrorKinds ==
    /\ \A i \in CallsOn("missing") \cup CallsOn("file") : hist[i].err = "ErrNotADirectory"
    /\ \A i \in CallsOn("readonly") : hist[i].err = "ErrCannotCreateDirectory"

\* C14 as amended: GetVolumeType fails with the error of os.Stat, "does not
\* exist", when dir does not exist, with ErrNotADirectory when dir exists
\* and is not a directory, and with ErrCannotCreateDirectory when the probe
\* directory cannot be created under dir.
C14_ErrorKindsAmended ==
    /\ \A i \in CallsOn("missing") : hist[i].err = "ErrNotExist"
    /\ \A i \in CallsOn("file") : hist[i].err = "ErrNotADirectory"
    /\ \A i \in CallsOn("readonly") : hist[i].err = "ErrCannotCreateDirectory"

C14_Witness ==
    /\ \E i \in CallsOn("missing") : hist[i].err = "ErrNotExist"
    /\ \E i \in CallsOn("file") : hist[i].err = "ErrNotADirectory"

\* C15: a failed probe is never turned into a classification. Whenever
\* GetVolumeType returns an error the returned type is VolumeTypeUnknown,
\* IsFat and IsExt answer false with the error, nothing is cached for the
\* directory, and a later call for the directory goes through the probe
\* again and fails the same way instead of answering from a remembered value.
C15_FailedProbeNotCached ==
    \A i \in 1..Len(hist) :
        hist[i].err # "nil"
        => /\ hist[i].type = VolumeTypeUnknown
           /\ ~hist[i].ok
           /\ volMap[hist[i].dir] = NoEntry
           /\ \A j \in 1..Len(hist) :
                (i < j /\ hist[j].dir = hist[i].dir)
                => (hist[j].err = hist[i].err /\ hist[j].probed = hist[i].probed)

C15_Witness ==
    \E i \in 1..Len(hist), j \in 1..Len(hist) :
        /\ i < j
        /\ hist[i].dir = hist[j].dir
        /\ hist[i].fn = "GetVolumeType" /\ hist[j].fn = "IsFat"
        /\ hist[i].err = "ErrMkdirAll" /\ hist[j].err = "ErrMkdirAll"
        /\ hist[j].probed

\* the call hist[i] found nothing usable in the cache: no earlier call for
\* its directory returned a classification
IsCacheMiss(i) ==
    \A j \in 1..Len(hist) : (j < i /\ hist[j].dir = hist[i].dir) => hist[j].err # "nil"

\* C16: probe classification rule. A call of GetVolumeType that misses the
\* cache and succeeds has made a probe directory and tried one entry per
\* probe character; it returns Ext if at least one of the entries could be
\* created and Fat only if none could.
C16_ClassificationRule ==
    \A i \in 1..Len(hist) :
        (hist[i].err = "nil" /\ IsCacheMiss(i))
        => /\ hist[i].probed
           /\ hist[i].type =
                IF \E r \in reservedFATChars : r \notin volRejects[hist[i].dir]
                THEN VolumeTypeExt ELSE VolumeTypeFat

C16_Witness ==
    \E i \in 1..Len(hist) :
        /\ hist[i].err = "nil" /\ hist[i].probed
        /\ ~isWindows
        /\ volRejects[hist[i].dir] = PrintableEncodes \ {58}
        /\ hist[i].type = VolumeTypeExt

\* no call for the directory d is between its lock and its return
NoCallIn(d) == \A t \in Threads : gpc[t] \in {"idle", "lock"} \/ cur[t].dir # d

\* C17: probe cleanup. Once GetVolumeType has returned, with a classification
\* or with an error, the directory holds none of the entries the call made:
\* the probe directory, its base entry and the entry of a probe character
\* that could be created are gone, and the directory is as before the call.
C17_ProbeCleanup ==
    \A d \in Dirs : NoCallIn(d) => entries[d] = {}

C17_Witness ==
    /\ \A d \in Dirs : NoCallIn(d) /\ entries[d] = {}
    /\ \E i \in 1..Len(hist) : hist[i].probed /\ hist[i].type = VolumeTypeExt
    /\ \E i \in 1..Len(hist) : hist[i].probed /\ hist[i].err = "ErrMkdirAll"

\* the callers that hold the mutex: past mux.Lock and not yet returned
InFlight == {t \in Threads : gpc[t] \notin {"idle", "lock"}}

\* at most one call is between mux.Lock and its return
C18_OneInFlight == Cardinality(InFlight) <= 1

\* once a call for a directory has succeeded, no later call for it probes
C18_NoSecondProbe ==
    \A i \in 1..Len(hist), j \in 1..Len(hist) :
        (i < j /\ hist[i].dir = hist[j].dir /\ hist[i].err = "nil") => ~hist[j].probed

\* every classification returned is the one a completed probe stored
C18_ReturnedIsStored ==
    \A i \in 1..Len(hist) :
        hist[i].err = "nil"
        => volMap[hist[i].dir] = [dyn |-> "VolumeType", val |-> hist[i].type]

\* C18: concurrent calls of GetVolumeType exclude each other. At any moment
\* at most one probe is in flight, of two concurrent calls for the same
\* uncached directory the second does not probe when the first succeeded,
\* and every classification returned was stored by a completed probe.
C18_MutualExclusion ==
    /\ C18_OneInFlight
    /\ C18_NoSecondProbe
    /\ C18_ReturnedIsStored

(***************************************************************************)
(* Properties of the codec's predicates.                                   *)
(***************************************************************************)
\* C19: predicate consistency. For every string s with no code point in the
\* escape region, IsEncoded(Encode(s)) = IsDecoded(s): the output of Encode
\* holds a genuine image exactly when s holds a Reserved character.
C19_PredicateConsistency ==
    (trace = <<"Encode">> /\ NoEscapeRegion(orig))
    => (IsEncoded(cs) <=> IsDecoded(orig))

C19_Witness ==
    /\ trace = <<"Encode">>
    /\ orig = <<65, 42, 47>>
    /\ IsDecoded(orig)
    /\ IsEncoded(cs)

\* C20: idempotent classification. For every string s, IsEncoded(Decode(s))
\* is false and IsDecoded(Encode(s)) is false.
C20_IdempotentClassification ==
    /\ (trace # <<>> /\ trace[Len(trace)] = "Decode") => ~IsEncoded(cs)
    /\ (trace # <<>> /\ trace[Len(trace)] = "Encode") => ~IsDecoded(cs)

C20_Witness ==
    /\ trace = <<"Decode", "Encode">>
    /\ orig = <<61498, 61505>>
    /\ cs = <<61498, 61505>>
    /\ ~IsDecoded(cs)

\* the part of s before the split point i, and the part after it
Before(s, i) == SubSeq(s, 1, i)
After(s, i) == SubSeq(s, i + 1, Len(s))

NamedTypes == {EncoderTypeNone, EncoderTypeFat, EncoderTypeUnset}

C23_NameQueries ==
    /\ last.op \in {"Stat", "Lstat"} /\ last.err = "nil"
          => last.rname = Base(last.name)
    /\ last.op \in {"Create", "Open", "OpenFile"} /\ last.err = "nil"
          => last.rname = last.name /\ last.sname = Base(last.name)

\* a handle opened on a name with ':' was stored under the escaped name and
\* reports the name with ':'
C23_Witness ==
    /\ encoderType = EncoderTypeFat
    /\ last.op = "Open" /\ last.err = "nil"
    /\ last.name = <<65, 58>>
    /\ last.passed = {<<65, 61498>>}
    /\ <<65, 61498>> \in DOMAIN disk
    /\ last.sname = <<65, 58>>

\* the call met a concrete type, or a filesystem, the decorator does not know
Unrecognized(c) ==
    /\ c.err = "nil"
    /\ \/ c.op \in {"Create", "Open", "OpenFile"} /\ fileImpl = "other"
       \/ c.op \in {"Stat", "Lstat", "File.Stat"} /\ infoImpl = "other"
       \/ c.op \in {"SetRooter", "rooted", "unrooted"} /\ ~isRooter

\* C24: every call that rewraps a result, or that needs the Rooter, and
\* meets an implementation the decorator does not know ends in a panic,
\* never in a result or in an error value
C24_FailsLoudly ==
    \A i \in 1..Len(wrapTrace) :
        Unrecognized(wrapTrace[i]) => wrapTrace[i].outcome = "panic"

\* the step ends a call: a whole call, or the wrapped filesystem's part of Glob
IsResultStep == IsCallStep \/ \E t \in Threads : tpc[t] = "glob" /\ tpc'[t] = "globRet"

\* C25: with the none encoder every call, inside or outside the pattern mode
\* of a Glob, hands the wrapped filesystem the names the caller gave and no
\* other, never fails in the encoder, changes no entry of the volume but the
\* ones the caller named, and lists every entry under its name on the volume
C25_NoneEquivalence ==
    [][(IsResultStep /\ encoderType = EncoderTypeNone)
       => /\ last'.why # "encode"
          /\ last'.op \in NameOps \cup {"Glob"}
                => last'.passed # {} /\ last'.passed \subseteq NamesOf(last')
          /\ last'.op \in (NameOps \ {"CreateSymlink"}) \cup {"Glob"}
                => last'.passed = NamesOf(last')
          /\ last'.op \in {"DirNames", "Glob"} /\ last'.err = "nil"
                => \A d \in DOMAIN last'.list : last'.list[d] = d
          /\ last'.op = "DirNames" => DOMAIN last'.list = DOMAIN disk
          /\ \A d \in DOMAIN disk' :
                d \notin DOMAIN disk \/ disk'[d] # disk[d] => d \in NamesOf(last')
          /\ (DOMAIN disk) \ (DOMAIN disk') \subseteq NamesOf(last')]_vars

\* while a Glob is in its pattern mode, a name in encoded form was created
\* under that very name
C25_Witness ==
    /\ encoderType = EncoderTypeNone
    /\ pattern = TRUE
    /\ last.op = "Create" /\ last.err = "nil"
    /\ last.name = <<65, 61498>>
    /\ last.passed = {<<65, 61498>>}
    /\ DOMAIN disk = {<<65, 61498>>}

(***************************************************************************)
(* Properties of the prober's results.                                     *)
(***************************************************************************)
\* C26: every call that returns without error, answered by a probe or from
\* the cache, returns VolumeTypeFat or VolumeTypeExt, so that exactly one of
\* IsFat and IsExt holds of what it returned
C26_SuccessIsFatOrExt ==
    \A i \in 1..Len(hist) :
        hist[i].err = "nil"
        => /\ hist[i].type \in {VolumeTypeFat, VolumeTypeExt}
           /\ (hist[i].type = VolumeTypeFat) # (hist[i].type = VolumeTypeExt)

(***************************************************************************)
(* Properties of the tool.                                                 *)
(***************************************************************************)
\* the step fixes a pair: both names were in the directory when it began
IsFixStep == fpc = "loop" /\ pair' # pair /\ fpc' = "loop"

\* C27: in the mode "encoded", after the fix of a duplicate pair the entry
\* under the encoded name exists and the one under the decoded name does not
C27_KeepsEncodedName ==
    [][(IsFixStep /\ fixMode = "encoded")
       => /\ pair'.e \in DOMAIN scanned'
          /\ pair'.d \notin DOMAIN scanned']_vars

(***************************************************************************)
(* Properties of the names on the volume.                                  *)
(***************************************************************************)
\* no unit of the name is a Reserved character
NoReserved(n) == \A i \in 1..Len(n) : n[i] \notin Encodes

\* C28: with the FAT encoder, a call made while no Glob is in progress hands
\* the wrapped filesystem only names, and link targets, without a Reserved
\* character, whatever calls were made before it, and so every entry it makes
\* is stored under a name without a Reserved character
C28_NoReservedOnVolume ==
    [][(/\ IsCallStep
        /\ encoderType = EncoderTypeFat
        /\ \A t \in Threads : tpc[t] = "idle")
       => /\ \A p \in last'.passed : NoReserved(p)
          /\ \A d \in (DOMAIN disk') \ (DOMAIN disk) : NoReserved(d)]_vars

\* a link named with '*' to a target with ':' was made on a volume that
\* takes every name: both are stored escaped
C28_Witness ==
    /\ encoderType = EncoderTypeFat
    /\ volume = VolumeTypeExt
    /\ \A t \in Threads : tpc[t] = "idle"
    /\ last.op = "CreateSymlink" /\ last.err = "nil"
    /\ last.name = <<65, 42>> /\ last.name2 = <<65, 58>>
    /\ last.passed = {<<65, 61482>>, <<65, 61498>>}
    /\ DOMAIN disk = {<<65, 61482>>}
    /\ disk[<<65, 61482>>].target = <<65, 61498>>

\* the names DirNames returned for two entries of the volume differ
ListedApart(d1, d2) == last.list[d1] # last.list[d2]

\* C29: listing through the FAT encoder is injective. DirNames returns
\* pairwise distinct names for the pairwise distinct names of the volume,
\* also when the volume holds a name with a raw Reserved character next to
\* the same name with that character's image.
C29_ListingInjective ==
    (encoderType = EncoderTypeFat /\ last.op = "DirNames")
    => \A d1 \in DOMAIN last.list, d2 \in DOMAIN last.list :
           d1 # d2 => ListedApart(d1, d2)

\* C29 as amended: DirNames returns pairwise distinct names for the entries
\* of the volume whose names hold no raw Reserved character
C29_ListingInjectiveAmended ==
    (encoderType = EncoderTypeFat /\ last.op = "DirNames")
    => \A d1 \in DOMAIN last.list, d2 \in DOMAIN last.list :
           (d1 # d2 /\ NoReserved(d1) /\ NoReserved(d2)) => ListedApart(d1, d2)

\* four entries without a raw Reserved character are listed under four names
C29_Witness ==
    /\ encoderType = EncoderTypeFat
    /\ last.op = "DirNames"
    /\ DOMAIN last.list = {<<65, 61482>>, <<65, 61498>>, <<61505, 61482>>, <<65, 61505>>}
    /\ last.list[<<65, 61482>>] = <<65, 42>>
    /\ last.list[<<65, 61498>>] = <<65, 58>>
    /\ last.list[<<61505, 61482>>] = <<61505, 42>>
    /\ last.list[<<65, 61505>>] = <<65, 61505>>

\* C30: Rename through the FAT encoder. With an old or a new name in encoded
\* form it fails with "does not exist" and leaves the volume as it was; with
\* neither in encoded form, a Rename that succeeds moves the entry stored
\* under Encode(old) to Encode(new) and touches no other entry.
C30_RenameMoves ==
    [][(/\ IsCallStep
        /\ encoderType = EncoderTypeFat
        /\ last'.op = "Rename")
       => /\ (IsEncoded(last'.name) \/ IsEncoded(last'.name2))
                => /\ last'.err = "ErrNotExist"
                   /\ last'.why = "encode"
                   /\ disk' = disk
          /\ (/\ ~IsEncoded(last'.name)
              /\ ~IsEncoded(last'.name2)
              /\ last'.err = "nil")
                => /\ Encode(last'.name) \in DOMAIN disk
                   /\ disk' = Put(Del(disk, Encode(last'.name)),
                                  Encode(last'.name2), disk[Encode(last'.name)])]_vars
====
